---- MODULE Spec2Model ----
(***************************************************************************)
(* ELD trip planner.                                                       *)
(*                                                                         *)
(* Part I  : the React front end (TripForm, App) as a state machine.       *)
(* Part II : the duty-cycle simulator and the daily-log partitioner.       *)
(***************************************************************************)
EXTENDS Integers, Sequences, FiniteSets, TLC

(***************************************************************************)
(* JavaScript values.  A JS value is a record tagged with its type, so     *)
(* that null, undefined, NaN, numbers, strings and objects can be told     *)
(* apart and compared.                                                     *)
(***************************************************************************)
JNull == [k |-> "null"]
JUndef == [k |-> "undefined"]
JNaN == [k |-> "NaN"]
JTrue == [k |-> "boolean", v |-> TRUE]
JNum(n) == [k |-> "number", v |-> n]
JStr(s) == [k |-> "string", v |-> s]

\* JS truthiness, as used by `!x`, `x && y`, `x || y` and `x ? a : b`.
Truthy(x) ==
  CASE x.k = "number" -> x.v # 0
    [] x.k = "string" -> x.v # ""
    [] x.k = "boolean" -> x.v
    [] x.k = "object" -> TRUE
    [] OTHER -> FALSE

(***************************************************************************)
(* Strings.  A string is a sequence of one-character strings; the          *)
(* operators below are String.prototype.split/slice/join/trim and          *)
(* parseFloat, computed character by character.                            *)
(***************************************************************************)
Drop(s, n) == SubSeq(s, n + 1, Len(s))

RECURSIVE IndexOfComma(_, _)
\* 1-based index of the first "," of s at or after position i; 0 if none.
IndexOfComma(s, i) ==
  IF i > Len(s) THEN 0
  ELSE IF SubSeq(s, i, i) = "," THEN i
  ELSE IndexOfComma(s, i + 1)

RECURSIVE SplitComma(_)
\* s.split(',')
SplitComma(s) ==
  LET i == IndexOfComma(s, 1)
  IN IF i = 0 THEN <<s>>
     ELSE <<SubSeq(s, 1, i - 1)>> \o SplitComma(Drop(s, i))

RECURSIVE JoinComma(_)
\* parts.join(',')
JoinComma(parts) ==
  IF Len(parts) = 0 THEN ""
  ELSE IF Len(parts) = 1 THEN parts[1]
  ELSE parts[1] \o "," \o JoinComma(Tail(parts))

RECURSIVE TrimStart(_)
TrimStart(s) ==
  IF s # "" /\ Head(s) = " " THEN TrimStart(Tail(s)) ELSE s

RECURSIVE TrimEnd(_)
TrimEnd(s) ==
  IF s # "" /\ SubSeq(s, Len(s), Len(s)) = " "
  THEN TrimEnd(SubSeq(s, 1, Len(s) - 1))
  ELSE s

\* s.trim()
Trim(s) == TrimEnd(TrimStart(s))

\* parts.slice(0, n)
SliceFirst(parts, n) ==
  SubSeq(parts, 1, IF Len(parts) < n THEN Len(parts) ELSE n)

\* s.name.split(',').slice(0, 2).join(',').trim()
ShortName(name) == Trim(JoinComma(SliceFirst(SplitComma(name), 2)))

Digits == {"0", "1", "2", "3", "4", "5", "6", "7", "8", "9"}

DigitVal(c) ==
  CASE c = "0" -> 0 [] c = "1" -> 1 [] c = "2" -> 2 [] c = "3" -> 3
    [] c = "4" -> 4 [] c = "5" -> 5 [] c = "6" -> 6 [] c = "7" -> 7
    [] c = "8" -> 8 [] c = "9" -> 9

RECURSIVE TakeDigits(_)
\* the longest prefix of s made of decimal digits
TakeDigits(s) ==
  IF s # "" /\ Head(s) \in Digits
  THEN Head(s) \o TakeDigits(Tail(s))
  ELSE ""

RECURSIVE DigitsVal(_, _)
DigitsVal(s, acc) ==
  IF s = "" THEN acc ELSE DigitsVal(Tail(s), acc * 10 + DigitVal(Head(s)))

RECURSIVE Pow10(_)
Pow10(n) == IF n <= 0 THEN 1 ELSE 10 * Pow10(n - 1)

\* Numbers parsed from text are kept in hundredths (70.5 is 7050).
Scale == 100

\* parseFloat(str): optional sign, digits, optional fraction, optional
\* exponent; the longest such prefix is the number, NaN when there is none.
ParseFloat(str) ==
  LET s0 == TrimStart(str)
      neg == s0 # "" /\ Head(s0) = "-"
      s1 == IF s0 # "" /\ Head(s0) \in {"-", "+"} THEN Tail(s0) ELSE s0
      ip == TakeDigits(s1)
      r1 == Drop(s1, Len(ip))
      dot == r1 # "" /\ Head(r1) = "."
      fp == IF dot THEN TakeDigits(Tail(r1)) ELSE ""
      r2 == IF dot THEN Drop(r1, 1 + Len(fp)) ELSE r1
      e0 == r2 # "" /\ Head(r2) \in {"e", "E"}
      r3 == IF e0 THEN Tail(r2) ELSE ""
      eneg == r3 # "" /\ Head(r3) = "-"
      r4 == IF r3 # "" /\ Head(r3) \in {"-", "+"} THEN Tail(r3) ELSE r3
      ed == TakeDigits(r4)
      ex == IF e0 /\ ed # "" THEN DigitsVal(ed, 0) ELSE 0
      mant == DigitsVal(ip, 0) * Pow10(Len(fp)) + DigitsVal(fp, 0)
      num == mant * Scale * (IF eneg THEN 1 ELSE Pow10(ex))
      den == Pow10(Len(fp)) * (IF eneg THEN Pow10(ex) ELSE 1)
      mag == num \div den
  IN IF ip = "" /\ fp = "" THEN JNaN
     ELSE JNum(IF neg THEN 0 - mag ELSE mag)

\* isNaN(x) for the result of parseFloat
IsNaN(x) == x.k = "NaN"

\* x < n and x > n for a JS number x and an integer literal n: every
\* comparison with NaN is false.
JLess(x, n) == x.k = "number" /\ x.v < n * Scale
JGreater(x, n) == x.k = "number" /\ x.v > n * Scale

(***************************************************************************)
(* Part I.  TripForm and App.                                              *)
(***************************************************************************)
VARIABLES
  form,             \* TripForm: useState form
  validationError,  \* TripForm: useState validationError
  tripData,         \* App: useState tripData
  loading,          \* App: useState loading
  error,            \* App: useState error
  cycleWarning,     \* App: useState cycleWarning
  call,             \* the handlePlanTrip call: none, pending (request in
                    \* flight) or settled (with the response it consumed)
  edits             \* number of form edits made so far

uiVars == <<form, validationError, tripData, loading, error, cycleWarning,
            call, edits>>

\* The number of edits of form fields (keystrokes, selections, example
\* loads) in one behaviour.
MaxEdits == 4

Keys == {"currentLocation", "pickupLocation", "dropoffLocation"}

Loc(text, lat, lon) == [text |-> text, lat |-> lat, lon |-> lon]

EmptyLoc == Loc("", JNull, JNull)

\* Coordinates are in 1e-4 degrees.
InitialForm ==
  [currentLocation |-> EmptyLoc,
   pickupLocation |-> EmptyLoc,
   dropoffLocation |-> EmptyLoc,
   cycleHoursUsed |-> ""]

\* The `examples` table of loadExample.
Examples ==
  [short |->
     [currentLocation |-> Loc("Chicago, IL", JNum(418781), JNum(-876298)),
      pickupLocation |-> Loc("Indianapolis, IN", JNum(397684), JNum(-861581)),
      dropoffLocation |-> Loc("Columbus, OH", JNum(399612), JNum(-829988)),
      cycleHoursUsed |-> "20"],
   long |->
     [currentLocation |-> Loc("Los Angeles, CA", JNum(340522), JNum(-1182437)),
      pickupLocation |-> Loc("Phoenix, AZ", JNum(334484), JNum(-1120740)),
      dropoffLocation |-> Loc("Dallas, TX", JNum(327767), JNum(-967970)),
      cycleHoursUsed |-> "35"],
   crosscountry |->
     [currentLocation |-> Loc("Seattle, WA", JNum(476062), JNum(-1223321)),
      pickupLocation |-> Loc("Portland, OR", JNum(455051), JNum(-1226750)),
      dropoffLocation |-> Loc("New York, NY", JNum(407128), JNum(-740060)),
      cycleHoursUsed |-> "10"]]

ExampleNames == {"short", "long", "crosscountry"}

\* Geocode results a suggestion list can offer: {name, lat, lon}.  The
\* second lies on the equator.
GeoResults ==
  {[name |-> "Boston, Suffolk County, MA", lat |-> JNum(423601),
    lon |-> JNum(-710589)],
   [name |-> "Macapa , AP, Brazil", lat |-> JNum(0), lon |-> JNum(-510694)]}

\* What a keystroke can leave in a location input.
TypedTexts == {"", "Bo"}

\* What the number input can hold: the empty string or a valid
\* floating-point number.
CycleTexts == {"", "0", "70", "70.5", "-1", "1e2"}

ValidationLocations ==
  "Please select locations from the dropdown suggestions to get coordinates."

ValidationCycle == "Cycle hours must be between 0 and 70."

\* The call before any submission and after handleReset.
NoCall == [st |-> "none"]

UIInit ==
  /\ form = InitialForm
  /\ validationError = ""
  /\ tripData = JNull
  /\ loading = FALSE
  /\ error = JNull
  /\ cycleWarning = JNull
  /\ call = NoCall
  /\ edits = 0

\* App renders TripForm while tripData is falsy and TripResults otherwise.
FormShown == ~Truthy(tripData)

ResultsShown == Truthy(tripData)

\* TripResults renders the banner under `cycleWarning && (...)`.
BannerShown == ResultsShown /\ Truthy(cycleWarning)

\* App renders the error box, beside the form, under `error && (...)`.
ErrorBoxShown == FormShown /\ Truthy(error)

\* The slip of keeping the old coordinates: onChange({ ...value, text: val })
ChangedLocation_keepCoords(old, val) == Loc(val, old.lat, old.lon)

\* LocationInput.handleChange: onChange({ text: val, lat: null, lon: null })
ChangedLocation(old, val) == Loc(val, JNull, JNull)

\* LocationInput.selectSuggestion: onChange({ text: shortName, lat, lon })
SelectedLocation(s) == Loc(ShortName(s.name), s.lat, s.lon)

\* A keystroke in the location input `key`.
HandleChange(key, val) ==
  /\ FormShown
  /\ edits < MaxEdits
  /\ val # form[key].text
  /\ form' = [form EXCEPT ![key] = ChangedLocation(form[key], val)]
  /\ edits' = edits + 1
  /\ UNCHANGED <<validationError, tripData, loading, error, cycleWarning, call>>

\* A click on suggestion s of the location input `key`.
SelectSuggestion(key, s) ==
  /\ FormShown
  /\ edits < MaxEdits
  /\ form' = [form EXCEPT ![key] = SelectedLocation(s)]
  /\ edits' = edits + 1
  /\ UNCHANGED <<validationError, tripData, loading, error, cycleWarning, call>>

\* An edit of the cycle-hours number input.
HandleCycleChange(val) ==
  /\ FormShown
  /\ edits < MaxEdits
  /\ val # form.cycleHoursUsed
  /\ form' = [form EXCEPT !.cycleHoursUsed = val]
  /\ edits' = edits + 1
  /\ UNCHANGED <<validationError, tripData, loading, error, cycleWarning, call>>

\* A click on one of the quick-load buttons.
LoadExample(example) ==
  /\ FormShown
  /\ edits < MaxEdits
  /\ form' = Examples[example]
  /\ edits' = edits + 1
  /\ UNCHANGED <<validationError, tripData, loading, error, cycleWarning, call>>

\* if (!currentLocation.lat || !pickupLocation.lat || !dropoffLocation.lat)
LocationsRejected(f) ==
  \/ ~Truthy(f.currentLocation.lat)
  \/ ~Truthy(f.pickupLocation.lat)
  \/ ~Truthy(f.dropoffLocation.lat)

\* The slip of leaving out the isNaN test.
CycleRejected_noNaN(cycle) == JLess(cycle, 0) \/ JGreater(cycle, 70)

\* if (isNaN(cycle) || cycle < 0 || cycle > 70)
CycleRejected(cycle) == IsNaN(cycle) \/ JLess(cycle, 0) \/ JGreater(cycle, 70)

\* The object handleSubmit passes to onSubmit.
FormData(f) ==
  [current_lat |-> f.currentLocation.lat,
   current_lon |-> f.currentLocation.lon,
   current_location |-> f.currentLocation.text,
   pickup_lat |-> f.pickupLocation.lat,
   pickup_lon |-> f.pickupLocation.lon,
   pickup_location |-> f.pickupLocation.text,
   dropoff_lat |-> f.dropoffLocation.lat,
   dropoff_lon |-> f.dropoffLocation.lon,
   dropoff_location |-> f.dropoffLocation.text,
   cycle_hours_used |-> ParseFloat(f.cycleHoursUsed)]

\* TripForm.handleSubmit, with the synchronous part of App.handlePlanTrip
\* (up to the fetch) that onSubmit runs.  The submit button is disabled
\* while loading.
HandleSubmit ==
  /\ FormShown
  /\ ~loading
  /\ IF LocationsRejected(form)
     THEN /\ validationError' = ValidationLocations
          /\ UNCHANGED <<form, tripData, loading, error, cycleWarning, call,
                         edits>>
     ELSE IF CycleRejected(ParseFloat(form.cycleHoursUsed))
     THEN /\ validationError' = ValidationCycle
          /\ UNCHANGED <<form, tripData, loading, error, cycleWarning, call,
                         edits>>
     ELSE /\ validationError' = ""
          /\ loading' = TRUE
          /\ error' = JNull
          /\ tripData' = JNull
          /\ cycleWarning' = JNull
          /\ call' = [st |-> "pending", body |-> FormData(form)]
          /\ UNCHANGED <<form, edits>>

\* A parsed response body: the fields handlePlanTrip and TripResults read;
\* `plan` stands for stops, day_logs and summary.
Data(cw, cwType, message, err, cwMessage, plan) ==
  [k |-> "object",
   cycle_warning |-> cw,
   cycle_warning_type |-> cwType,
   message |-> message,
   error |-> err,
   cycle_warning_message |-> cwMessage,
   plan |-> plan]

HttpResponse(ok, data) ==
  [kind |-> "http", ok |-> ok, parsable |-> TRUE, data |-> data]

\* A response whose body is not JSON: response.json() rejects.
UnparsableResponse(ok) == [kind |-> "http", ok |-> ok, parsable |-> FALSE]

\* fetch() itself rejects.
NetworkFailure == [kind |-> "network"]

Itinerary == JStr("stops, day_logs, summary")

HardMessage == JStr("Cycle limit reached: no hours remain")

SoftMessage == JStr("Trip ends close to the 70-hour limit")

ServerError == JStr("Could not compute route")

RespPlain == HttpResponse(TRUE, Data(JUndef, JUndef, JUndef, JUndef, JUndef, Itinerary))

RespSoft ==
  HttpResponse(TRUE, Data(JTrue, JStr("soft_limit"), JUndef, JUndef, SoftMessage, Itinerary))

RespHard ==
  HttpResponse(FALSE, Data(JTrue, JStr("hard_limit"), HardMessage, JUndef, JUndef, JUndef))

RespError == HttpResponse(FALSE, Data(JUndef, JUndef, JUndef, ServerError, JUndef, JUndef))

RespErrorBare == HttpResponse(FALSE, Data(JUndef, JUndef, JUndef, JUndef, JUndef, JUndef))

\* A non-OK response flagged soft_limit, and an OK one flagged hard_limit.
RespSoftNotOk ==
  HttpResponse(FALSE, Data(JTrue, JStr("soft_limit"), JUndef, JUndef, SoftMessage, JUndef))

RespHardOk ==
  HttpResponse(TRUE, Data(JTrue, JStr("hard_limit"), HardMessage, JUndef, JUndef, Itinerary))

\* The outcomes of one plan-trip request.
Responses ==
  {RespPlain, RespSoft, RespHard, RespError, RespErrorBare, RespSoftNotOk,
   RespHardOk, UnparsableResponse(FALSE), NetworkFailure}

IsHardLimit(resp) ==
  /\ resp.kind = "http" /\ resp.parsable /\ ~resp.ok
  /\ Truthy(resp.data.cycle_warning)
  /\ resp.data.cycle_warning_type = JStr("hard_limit")

IsSoftLimit(resp) ==
  /\ resp.kind = "http" /\ resp.parsable /\ resp.ok
  /\ Truthy(resp.data.cycle_warning)
  /\ resp.data.cycle_warning_type = JStr("soft_limit")

NetworkErrorMessage == JStr("Failed to fetch")

SyntaxErrorMessage == JStr("Unexpected token < in JSON at position 0")

DefaultErrorMessage == JStr("Failed to plan trip")

\* The slip of treating a hard-limit response like any other failure.
PlanTripOutcome_noHardBranch(resp) ==
  IF resp.kind = "network"
  THEN [error |-> NetworkErrorMessage, tripData |-> JNull, cycleWarning |-> JNull]
  ELSE IF ~resp.parsable
  THEN [error |-> SyntaxErrorMessage, tripData |-> JNull, cycleWarning |-> JNull]
  ELSE IF ~resp.ok
  THEN [error |-> IF Truthy(resp.data.error) THEN resp.data.error
                  ELSE DefaultErrorMessage,
        tripData |-> JNull, cycleWarning |-> JNull]
  ELSE [error |-> JNull,
        tripData |-> resp.data,
        cycleWarning |-> IF IsSoftLimit(resp)
                         THEN resp.data.cycle_warning_message
                         ELSE JNull]

\* The slip of storing the plan without its advisory.
PlanTripOutcome_noSoftBranch(resp) ==
  IF resp.kind = "network"
  THEN [error |-> NetworkErrorMessage, tripData |-> JNull, cycleWarning |-> JNull]
  ELSE IF ~resp.parsable
  THEN [error |-> SyntaxErrorMessage, tripData |-> JNull, cycleWarning |-> JNull]
  ELSE IF ~resp.ok
  THEN IF IsHardLimit(resp)
       THEN [error |-> resp.data.message, tripData |-> JNull,
             cycleWarning |-> JNull]
       ELSE [error |-> IF Truthy(resp.data.error) THEN resp.data.error
                       ELSE DefaultErrorMessage,
             tripData |-> JNull, cycleWarning |-> JNull]
  ELSE [error |-> JNull, tripData |-> resp.data, cycleWarning |-> JNull]

\* The slip of throwing data.error without the default message.
PlanTripOutcome_noDefault(resp) ==
  IF resp.kind = "network"
  THEN [error |-> NetworkErrorMessage, tripData |-> JNull, cycleWarning |-> JNull]
  ELSE IF ~resp.parsable
  THEN [error |-> SyntaxErrorMessage, tripData |-> JNull, cycleWarning |-> JNull]
  ELSE IF ~resp.ok
  THEN IF IsHardLimit(resp)
       THEN [error |-> resp.data.message, tripData |-> JNull,
             cycleWarning |-> JNull]
       ELSE [error |-> resp.data.error, tripData |-> JNull,
             cycleWarning |-> JNull]
  ELSE [error |-> JNull,
        tripData |-> resp.data,
        cycleWarning |-> IF IsSoftLimit(resp)
                         THEN resp.data.cycle_warning_message
                         ELSE JNull]

\* What handlePlanTrip leaves in error, tripData and cycleWarning once the
\* request has settled with `resp` (all three were set to null at the
\* start of the call).
PlanTripOutcome(resp) ==
  IF resp.kind = "network"
  THEN [error |-> NetworkErrorMessage, tripData |-> JNull, cycleWarning |-> JNull]
  ELSE IF ~resp.parsable
  THEN [error |-> SyntaxErrorMessage, tripData |-> JNull, cycleWarning |-> JNull]
  ELSE IF ~resp.ok
  THEN IF IsHardLimit(resp)
       THEN [error |-> resp.data.message, tripData |-> JNull,
             cycleWarning |-> JNull]
       ELSE [error |-> IF Truthy(resp.data.error) THEN resp.data.error
                       ELSE DefaultErrorMessage,
             tripData |-> JNull, cycleWarning |-> JNull]
  ELSE [error |-> JNull,
        tripData |-> resp.data,
        cycleWarning |-> IF IsSoftLimit(resp)
                         THEN resp.data.cycle_warning_message
                         ELSE JNull]

\* The slip of sending the request again when it has failed.
PlanTripSettle_retry(resp) ==
  /\ call.st = "pending"
  /\ LET out == PlanTripOutcome(resp)
     IN /\ error' = out.error
        /\ tripData' = out.tripData
        /\ cycleWarning' = out.cycleWarning
        /\ IF Truthy(out.tripData)
           THEN /\ form' = InitialForm /\ validationError' = ""
                /\ loading' = FALSE
                /\ call' = [st |-> "settled", resp |-> resp]
           ELSE /\ UNCHANGED <<form, validationError>>
                /\ loading' = TRUE
                /\ call' = [st |-> "pending", body |-> call.body, retry |-> TRUE]
  /\ UNCHANGED edits

\* The slip of calling setLoading(false) at the end of the try block, not
\* in finally.
PlanTripSettle_noFinally(resp) ==
  /\ call.st = "pending"
  /\ LET out == PlanTripOutcome(resp)
     IN /\ error' = out.error
        /\ tripData' = out.tripData
        /\ cycleWarning' = out.cycleWarning
        /\ IF Truthy(out.tripData)
           THEN form' = InitialForm /\ validationError' = "" /\ loading' = FALSE
           ELSE UNCHANGED <<form, validationError, loading>>
  /\ call' = [st |-> "settled", resp |-> resp]
  /\ UNCHANGED edits

\* The rest of App.handlePlanTrip: the request settles with `resp`.  When
\* tripData becomes truthy App replaces TripForm by TripResults, and the
\* form's state is gone: the next TripForm is a new one.
PlanTripSettle(resp) ==
  /\ call.st = "pending"
  /\ LET out == PlanTripOutcome(resp)
     IN /\ error' = out.error
        /\ tripData' = out.tripData
        /\ cycleWarning' = out.cycleWarning
        /\ IF Truthy(out.tripData)
           THEN form' = InitialForm /\ validationError' = ""
           ELSE UNCHANGED <<form, validationError>>
  /\ loading' = FALSE
  /\ call' = [st |-> "settled", resp |-> resp]
  /\ UNCHANGED edits

\* The slip of leaving the advisory behind on reset.
HandleReset_keepWarning ==
  /\ ResultsShown
  /\ tripData' = JNull
  /\ error' = JNull
  /\ call' = NoCall
  /\ UNCHANGED <<form, validationError, loading, edits, cycleWarning>>

\* App.handleReset, the NEW TRIP button of TripResults.
HandleReset ==
  /\ ResultsShown
  /\ tripData' = JNull
  /\ error' = JNull
  /\ cycleWarning' = JNull
  /\ call' = NoCall
  /\ UNCHANGED <<form, validationError, loading, edits>>

(***************************************************************************)
(* Part II.  The duty-cycle simulator, the cycle compliance checker and    *)
(* the daily-log partitioner (backend/trip_planner/hos_calculator.py).     *)
(*                                                                         *)
(* Time is counted in units of 1/110 hour, so that one mile at 55 mph is   *)
(* two units and the 30-minute break is 55 units.  Distances are counted   *)
(* in the units it takes to drive them.                                    *)
(***************************************************************************)
VARIABLES
  trip,                    \* the planning call's inputs
  simPc,                   \* "idle", "start", "run", "done" or "blocked"
  seg,                     \* the segment being driven: 1 or 2
  left,                    \* driving left to the next waypoint
  now,                     \* time elapsed since the trip start
  miles,                   \* distance driven since the trip start
  drive_since_break,
  drive_in_shift,
  duty_in_window,
  miles_since_fuel,
  cumulative_cycle_hours,
  events,                  \* the DutyEvent timeline
  stops,                   \* the Stop sequence
  verdict,                 \* the ComplianceVerdict's kind
  day_logs                 \* the DayLogs of the finished plan

simVars == <<trip, simPc, seg, left, now, miles, drive_since_break,
             drive_in_shift, duty_in_window, miles_since_fuel,
             cumulative_cycle_hours, events, stops, verdict, day_logs>>

\* The log sheet (ELDLogSheet).
VARIABLES
  wallClock,               \* the day new Date() falls on, in days since Epoch
  canvas,                  \* what the sheet's canvas shows, if mounted
  stamped                  \* for each DayLog, the date first stamped on it

sheetVars == <<wallClock, canvas, stamped>>

\* One LocationInput, the one of form.currentLocation.
VARIABLES
  suggestions,             \* useState suggestions
  showSugg,                \* useState showSugg
  timers,                  \* the debounce timers set and not yet fired or cleared
  debounceRef,             \* debounceRef.current: the timer set last
  geoFetches               \* the geocode requests in flight, oldest first

geoVars == <<suggestions, showSugg, timers, debounceRef, geoFetches>>

\* One RouteMap at a time, and the page it lives in.
VARIABLES
  mounted,                 \* a RouteMap is mounted
  inst,                    \* which one: the number of RouteMaps mounted so far
  stopsProp,               \* its stops prop
  leafletLoaded,           \* window.L is defined
  scripts,                 \* the Leaflet script elements still loading
  maps,                    \* the Leaflet map instances created and not removed
  mapInstanceRef           \* mapInstanceRef.current of the mounted RouteMap

mapVars == <<mounted, inst, stopsProp, leafletLoaded, scripts, maps,
             mapInstanceRef>>

vars == <<uiVars, simVars, sheetVars, geoVars, mapVars>>

\* What the steps of one part leave alone.
besidesUI == <<simVars, sheetVars, geoVars, mapVars>>

besidesSim == <<uiVars, sheetVars, geoVars, mapVars>>

besidesSheet == <<uiVars, simVars, geoVars, mapVars>>

besidesGeo == <<simVars, sheetVars, mapVars>>

besidesMap == <<uiVars, simVars, sheetVars, geoVars>>

\* Slips in the rule values.
MaxDrivePerShift_slip == 11 + 1

MinRest_slip == 10 - 10

BreakThreshold_slip == 8 + 1

\* README, "HOS Rules Implemented".
MaxDrivePerShift == 11

MaxDutyWindow == 14

MinRest == 10

BreakThreshold == 8

BreakMinutes == 30

CycleLimit == 70

FuelInterval == 1000

TaskDuration == 1

AverageSpeed == 55

UnitsPerHour == 2 * AverageSpeed

Hours(h) == h * UnitsPerHour

Minutes(m) == (m * UnitsPerHour) \div 60

\* The driving time of a distance: distance / 55 mph.
DriveUnits(distanceMiles) == (distanceMiles * UnitsPerHour) \div AverageSpeed

HoursPerDay == 24

Day == Hours(HoursPerDay)

\* A fuel stop is "a short OnDutyNotDriving event": half an hour or an hour.
FuelStopDurations == {Minutes(30), Minutes(60)}

\* Segment distances are multiples of one hour's driving, up to
\* MaxSegSteps of them, and the distance one mile past a full shift's
\* driving.
MaxSegSteps == 12

SegMiles ==
  {k * AverageSpeed : k \in 0..MaxSegSteps}
  \cup {MaxDrivePerShift * AverageSpeed + 1}

\* cycle_hours_used of the requests planned.
CycleHoursUsed == {20, 68, 70}

\* The local hour of day of the trip-start timestamp.
StartHours == {0, 1, 6, 23}

\* A 10-hour rest is logged as SleeperBerth or OffDuty.
RestStatuses == {"SleeperBerth", "OffDuty"}

Trips ==
  [d1 : SegMiles, d2 : SegMiles, cycle_hours_used : CycleHoursUsed,
   start_hour : StartHours, rest_status : RestStatuses]

NoTrip ==
  [d1 |-> 0, d2 |-> 0, cycle_hours_used |-> 0, start_hour |-> 0,
   rest_status |-> "OffDuty"]

\* The simulator before plan() is called.
SimAt(pc, t) ==
  /\ trip = t
  /\ simPc = pc
  /\ seg = 1
  /\ left = 0
  /\ now = 0
  /\ miles = 0
  /\ drive_since_break = 0
  /\ drive_in_shift = 0
  /\ duty_in_window = 0
  /\ miles_since_fuel = 0
  /\ cumulative_cycle_hours = 0
  /\ events = <<>>
  /\ stops = <<>>
  /\ verdict = "none"
  /\ day_logs = <<>>

Min2(a, b) == IF a < b THEN a ELSE b

\* Time remaining until a counter reaches its limit; none once it has.
Remaining(limit, used) == IF used >= limit THEN 0 ELSE limit - used

ToWaypoint == left

ToBreak == Remaining(Hours(BreakThreshold), drive_since_break)

ToDriveCap == Remaining(Hours(MaxDrivePerShift), drive_in_shift)

ToWindowCap == Remaining(Hours(MaxDutyWindow), duty_in_window)

\* The slip of holding the driving clock against the window limit and
\* leaving the window clock out.
ToShiftCap_driveOnly == Remaining(Hours(MaxDutyWindow), drive_in_shift)

\* The 11-hour drive cap and the 14-hour window cap close the shift alike.
ToShiftCap == Min2(ToDriveCap, ToWindowCap)

ToFuel == Remaining(DriveUnits(FuelInterval), miles_since_fuel)

\* The time the next step drives: the minimum of the five bounds.
Advance == Min2(ToWaypoint, Min2(ToBreak, Min2(ToShiftCap, ToFuel)))

DutyEvent(kind, status, s, e) == [kind |-> kind, status |-> status, s |-> s, e |-> e]

\* The distance driven in a driving time: 55 mph.
MilesOf(units) == (units * AverageSpeed) \div UnitsPerHour

LastStopMiles == IF stops = <<>> THEN 0 ELSE stops[Len(stops)].cumulative_miles

\* The slip of storing the leg's miles where the odometer reading belongs.
Stop_legMiles(type, arrival, dur, cum) ==
  [type |-> type, arrival_time |-> arrival, departure_time |-> arrival + dur,
   duration_hours |-> dur, miles_from_prev |-> cum - LastStopMiles,
   cumulative_miles |-> cum - LastStopMiles]

\* The Stop of a transition that begins at time `arrival`, `cum` miles
\* into the trip, and lasts `dur`.
Stop(type, arrival, dur, cum) ==
  [type |-> type, arrival_time |-> arrival, departure_time |-> arrival + dur,
   duration_hours |-> dur, miles_from_prev |-> cum - LastStopMiles,
   cumulative_miles |-> cum]

\* The timeline after driving for `adv`, then spending `dur` in `status`.
EventsAfter(adv, kind, status, dur) ==
  (IF adv > 0
   THEN Append(events, DutyEvent("drive", "Driving", now, now + adv))
   ELSE events)
  \o <<DutyEvent(kind, status, now + adv, now + adv + dur)>>

(***************************************************************************)
(* The daily-log partitioner.  Periods and totals are in time units of the *)
(* local day, 0 .. Day.                                                    *)
(***************************************************************************)
Max2(a, b) == IF a > b THEN a ELSE b

RECURSIVE ClipPeriods(_, _, _, _, _)
\* The parts of the `status` events of ev that fall in the day [lo, hi],
\* in order, as [start, end] pairs local to the day; `off` is the local
\* time of day of the trip start.
ClipPeriods(ev, status, off, lo, hi) ==
  IF ev = <<>> THEN <<>>
  ELSE LET h == Head(ev)
           s == Max2(h.s + off, lo)
           e == Min2(h.e + off, hi)
       IN (IF h.status = status /\ s < e THEN << <<s - lo, e - lo>> >> ELSE <<>>)
          \o ClipPeriods(Tail(ev), status, off, lo, hi)

RECURSIVE PeriodsTotal(_)
PeriodsTotal(periods) ==
  IF periods = <<>> THEN 0
  ELSE (Head(periods)[2] - Head(periods)[1]) + PeriodsTotal(Tail(periods))

\* The span of day 1 before the trip start, back-filled as OffDuty.
LeadFill(off, d) == IF d = 0 /\ off > 0 THEN << <<0, off>> >> ELSE <<>>

\* The slip of leaving the end of the final day uncovered.
TrailFill_none(endAbs, d, lastDay) == <<>>

\* The span of the final day after the last event, back-filled as OffDuty.
TrailFill(endAbs, d, lastDay) ==
  IF d = lastDay /\ endAbs < (d + 1) * Day
  THEN << <<endAbs - d * Day, Day>> >>
  ELSE <<>>

DayLog(ev, off, d, lastDay) ==
  LET lo == d * Day
      hi == lo + Day
      endAbs == off + ev[Len(ev)].e
      offDuty == LeadFill(off, d) \o ClipPeriods(ev, "OffDuty", off, lo, hi)
                 \o TrailFill(endAbs, d, lastDay)
      sleeper == ClipPeriods(ev, "SleeperBerth", off, lo, hi)
      driving == ClipPeriods(ev, "Driving", off, lo, hi)
      onDuty == ClipPeriods(ev, "OnDutyNotDriving", off, lo, hi)
  IN [day_number |-> d + 1,
      date_offset_days |-> d,
      off_duty_periods |-> offDuty,
      sleeper_periods |-> sleeper,
      driving_periods |-> driving,
      on_duty_periods |-> onDuty,
      total_off_duty |-> PeriodsTotal(offDuty),
      total_sleeper |-> PeriodsTotal(sleeper),
      total_driving |-> PeriodsTotal(driving),
      total_on_duty |-> PeriodsTotal(onDuty)]

\* One DayLog for each local day the timeline touches.
DayLogs(ev, off) ==
  IF ev = <<>> THEN <<>>
  ELSE LET lastDay == (off + ev[Len(ev)].e - 1) \div Day
       IN [i \in 1..(lastDay + 1) |-> DayLog(ev, off, i - 1, lastDay)]

RECURSIVE DrawPeriods_clamp23(_)
\* The slip of clamping the end of a period to the last hour mark, 23.
DrawPeriods_clamp23(periods) ==
  IF periods = <<>> THEN <<>>
  ELSE LET start == Head(periods)[1]
           end == Head(periods)[2]
       IN (IF end <= start THEN <<>>
           ELSE << <<Max2(0, start), Min2(Day - Hours(1), end)>> >>)
          \o DrawPeriods_clamp23(Tail(periods))

RECURSIVE DrawPeriods(_)
\* ELDLogSheet.drawLog, drawPeriods: the spans of the 24-hour grid that are
\* filled for a list of periods.  A period with end <= start is skipped,
\* the others are clamped to [0, 24].
DrawPeriods(periods) ==
  IF periods = <<>> THEN <<>>
  ELSE LET start == Head(periods)[1]
           end == Head(periods)[2]
       IN (IF end <= start THEN <<>>
           ELSE << <<Max2(0, start), Min2(Day, end)>> >>)
          \o DrawPeriods(Tail(periods))

\* ELDLogSheet.drawLog, the sum check: the total is drawn green when
\* Math.abs(total - 24) < 0.5
SumCheckPasses(log) ==
  LET total == log.total_off_duty + log.total_sleeper + log.total_driving
               + log.total_on_duty
      diff == IF total >= Hours(24) THEN total - Hours(24) ELSE Hours(24) - total
  IN 2 * diff < Hours(1)

(***************************************************************************)
(* The cycle compliance checker.                                           *)
(***************************************************************************)
\* HardBlock: the credit is already at or over 70 before any progress.
HardBlocked(cycleHoursUsed) == Hours(cycleHoursUsed) >= Hours(CycleLimit)

\* summary.total_days: the number of DayLogs.
TotalDays(logs) == Len(logs)

\* The verdict of a completed itinerary whose on-duty total is `total`.
FinalVerdict(total) == IF total > Hours(CycleLimit) THEN "SoftWarning" ELSE "Ok"

(***************************************************************************)
(* The simulator.                                                          *)
(***************************************************************************)
\* plan(): a request whose credit is spent is refused; otherwise the
\* counters are seeded and the first segment begins.
SimStart ==
  /\ simPc = "start"
  /\ IF HardBlocked(trip.cycle_hours_used)
     THEN /\ simPc' = "blocked"
          /\ verdict' = "HardBlock"
          /\ UNCHANGED <<left, cumulative_cycle_hours, stops>>
     ELSE /\ simPc' = "run"
          /\ left' = DriveUnits(trip.d1)
          /\ cumulative_cycle_hours' = Hours(trip.cycle_hours_used)
          /\ stops' = <<Stop("start", 0, 0, 0)>>
          /\ UNCHANGED verdict
  /\ UNCHANGED <<trip, seg, now, miles, drive_since_break, drive_in_shift,
                 duty_in_window, miles_since_fuel, events, day_logs>>

\* What every step does: drive for Advance, then spend `dur` in `status`
\* at a stop of the given type.
StepCommon(kind, status, dur, stopType) ==
  /\ simPc = "run"
  /\ now' = now + Advance + dur
  /\ miles' = miles + Advance
  /\ events' = EventsAfter(Advance, kind, status, dur)
  /\ stops' = Append(stops, Stop(stopType, now + Advance, dur, MilesOf(miles + Advance)))
  /\ UNCHANGED trip

\* Waypoint reached: the 1-hour pickup or dropoff task.  The dropoff ends
\* the loop: the verdict is set and the timeline is partitioned.
StepWaypoint ==
  /\ simPc = "run"
  /\ ToWaypoint = Advance
  /\ StepCommon("task", "OnDutyNotDriving", Hours(TaskDuration),
                IF seg = 1 THEN "pickup" ELSE "dropoff")
  /\ drive_since_break' = drive_since_break + Advance
  /\ drive_in_shift' = drive_in_shift + Advance
  /\ duty_in_window' = duty_in_window + Advance + Hours(TaskDuration)
  /\ miles_since_fuel' = miles_since_fuel + Advance
  /\ cumulative_cycle_hours' = cumulative_cycle_hours + Advance + Hours(TaskDuration)
  /\ IF seg = 1
     THEN /\ seg' = 2
          /\ left' = DriveUnits(trip.d2)
          /\ UNCHANGED <<simPc, verdict, day_logs>>
     ELSE /\ simPc' = "done"
          /\ left' = 0
          /\ verdict' = FinalVerdict(cumulative_cycle_hours')
          /\ day_logs' = DayLogs(events', Hours(trip.start_hour))
          /\ UNCHANGED seg

\* Shift or window cap: the mandatory 10-hour rest.
StepRest ==
  /\ simPc = "run"
  /\ ToShiftCap = Advance
  /\ StepCommon("rest", trip.rest_status, Hours(MinRest), "rest")
  /\ drive_since_break' = 0
  /\ drive_in_shift' = 0
  /\ duty_in_window' = 0
  /\ miles_since_fuel' = miles_since_fuel + Advance
  /\ cumulative_cycle_hours' = cumulative_cycle_hours + Advance
  /\ left' = left - Advance
  /\ UNCHANGED <<simPc, seg, verdict, day_logs>>

\* The slip of opening a new window at the break.
StepBreak_resetsWindow ==
  /\ simPc = "run"
  /\ ToBreak = Advance
  /\ ToShiftCap > Advance
  /\ StepCommon("break", "OnDutyNotDriving", Minutes(BreakMinutes), "break")
  /\ drive_since_break' = 0
  /\ drive_in_shift' = drive_in_shift + Advance
  /\ duty_in_window' = 0
  /\ miles_since_fuel' = miles_since_fuel + Advance
  /\ cumulative_cycle_hours' = cumulative_cycle_hours + Advance + Minutes(BreakMinutes)
  /\ left' = left - Advance
  /\ UNCHANGED <<simPc, seg, verdict, day_logs>>

\* Break threshold: the 30-minute break.
StepBreak ==
  /\ simPc = "run"
  /\ ToBreak = Advance
  /\ ToShiftCap > Advance
  /\ StepCommon("break", "OnDutyNotDriving", Minutes(BreakMinutes), "break")
  /\ drive_since_break' = 0
  /\ drive_in_shift' = drive_in_shift + Advance
  /\ duty_in_window' = duty_in_window + Advance + Minutes(BreakMinutes)
  /\ miles_since_fuel' = miles_since_fuel + Advance
  /\ cumulative_cycle_hours' = cumulative_cycle_hours + Advance + Minutes(BreakMinutes)
  /\ left' = left - Advance
  /\ UNCHANGED <<simPc, seg, verdict, day_logs>>

\* Fuel boundary: the fuel stop.
StepFuel ==
  /\ simPc = "run"
  /\ ToFuel = Advance
  /\ ToBreak > Advance
  /\ ToShiftCap > Advance
  /\ \E dur \in FuelStopDurations :
       /\ StepCommon("fuel", "OnDutyNotDriving", dur, "fuel")
       /\ duty_in_window' = duty_in_window + Advance + dur
       /\ cumulative_cycle_hours' = cumulative_cycle_hours + Advance + dur
  /\ drive_since_break' = drive_since_break + Advance
  /\ drive_in_shift' = drive_in_shift + Advance
  /\ miles_since_fuel' = 0
  /\ left' = left - Advance
  /\ UNCHANGED <<simPc, seg, verdict, day_logs>>

(***************************************************************************)
(* Part III.  The log sheet: the date line of ELDLogSheet.drawLog.         *)
(* A date is a record of year, month and day.                              *)
(***************************************************************************)
\* The days the wall clock advances by in one behaviour.
MaxClockDays == 3

\* The DayLogs of the plan on show.
MaxSheetDays == 3

\* The day the behaviour begins on.
Epoch == [year |-> 2024, month |-> 12, day |-> 30]

IsLeapYear(y) == (y % 4 = 0 /\ y % 100 # 0) \/ y % 400 = 0

DaysInMonth(y, m) ==
  IF m = 2 THEN (IF IsLeapYear(y) THEN 29 ELSE 28)
  ELSE IF m \in {4, 6, 9, 11} THEN 30
  ELSE 31

NextDate(date) ==
  IF date.day < DaysInMonth(date.year, date.month)
  THEN [date EXCEPT !.day = date.day + 1]
  ELSE IF date.month < 12
  THEN [date EXCEPT !.month = date.month + 1, !.day = 1]
  ELSE [year |-> date.year + 1, month |-> 1, day |-> 1]

RECURSIVE AddDays(_, _)
\* Date.prototype.setDate(getDate() + n): the date n days on.
AddDays(date, n) == IF n = 0 THEN date ELSE AddDays(NextDate(date), n - 1)

\* String(n).padStart(2, '0')
Pad2(n) == IF n < 10 THEN "0" \o ToString(n) ELSE ToString(n)

\* new Date()
Today == AddDays(Epoch, wallClock)

\* The DayLogs the sheet is given: day_number and date_offset_days.
SheetLogs ==
  {[day_number |-> d + 1, date_offset_days |-> d] : d \in 0..(MaxSheetDays - 1)}

\* The month, day and year drawLog writes on the date line of `log`.
DateStamp(log) ==
  LET today == AddDays(Today, log.date_offset_days)
  IN [month |-> Pad2(today.month), day |-> Pad2(today.day),
      year |-> ToString(today.year)]

Blank == [k |-> "blank"]

NoStamp == [k |-> "none"]

SheetAt(clock) ==
  /\ wallClock = clock
  /\ canvas = Blank
  /\ stamped = [d \in 0..(MaxSheetDays - 1) |-> NoStamp]

\* The sheet of `log` is mounted, or `log` becomes the day on show: the
\* effect on [log] runs drawLog.
DrawLog(log) ==
  /\ IF canvas = Blank THEN TRUE ELSE canvas.log # log
  /\ canvas' = [k |-> "sheet", log |-> log, stamp |-> DateStamp(log)]
  /\ stamped' = IF stamped[log.date_offset_days] = NoStamp
                THEN [stamped EXCEPT ![log.date_offset_days] = DateStamp(log)]
                ELSE stamped
  /\ UNCHANGED wallClock

\* The user leaves the logs tab: the sheet is unmounted.
LeaveLogs ==
  /\ canvas # Blank
  /\ canvas' = Blank
  /\ UNCHANGED <<wallClock, stamped>>

\* Midnight passes.
ClockTick ==
  /\ wallClock < MaxClockDays
  /\ wallClock' = wallClock + 1
  /\ UNCHANGED <<canvas, stamped>>

(***************************************************************************)
(* Part IV.  LocationInput: the debounced geocode lookup and the           *)
(* suggestion list of the input of form.currentLocation.                   *)
(***************************************************************************)
GeoKey == "currentLocation"

\* What a keystroke can leave in the input.
GeoTyped == {"", "Bo", "Bos", "Mac"}

\* The results of the geocoder for the query q: the places whose name
\* begins with q.
GeocodeResults(q) ==
  LET found == {r \in GeoResults : Len(q) <= Len(r.name) /\ SubSeq(r.name, 1, Len(q)) = q}
  IN IF q = "" \/ found = {} THEN <<>> ELSE <<CHOOSE r \in found : TRUE>>

\* How a geocode request can end: a body with results, a body without a
\* results field, a non-OK response, a rejected fetch.
GeoOutcomes == {"results", "noResults", "notOk", "failed"}

Timer(val) == [k |-> "timer", val |-> val]

NoTimer == [k |-> "none"]

GeoAt ==
  /\ suggestions = <<>>
  /\ showSugg = FALSE
  /\ timers = {}
  /\ debounceRef = NoTimer
  /\ geoFetches = <<>>

\* The suggestion list is on screen: showSugg && suggestions.length > 0
DropdownShown == showSugg /\ Len(suggestions) > 0

\* LocationInput.handleChange.
GeoHandleChange(val) ==
  /\ HandleChange(GeoKey, val)
  /\ IF Len(val) < 3
     THEN /\ timers' = timers \ {debounceRef}
          /\ suggestions' = <<>>
          /\ UNCHANGED debounceRef
     ELSE /\ timers' = (timers \ {debounceRef}) \cup {Timer(val)}
          /\ debounceRef' = Timer(val)
          /\ UNCHANGED suggestions
  /\ UNCHANGED <<showSugg, geoFetches>>

\* 400 ms after it was set, a timer fires: its callback sends the request.
TimerFire(t) ==
  /\ t \in timers
  /\ timers' = timers \ {t}
  /\ geoFetches' = Append(geoFetches, t.val)
  /\ UNCHANGED <<suggestions, showSugg, debounceRef, uiVars>>

\* The i-th request in flight settles.
GeoRespond(i, outcome) ==
  /\ i \in DOMAIN geoFetches
  /\ geoFetches' = SubSeq(geoFetches, 1, i - 1)
                    \o SubSeq(geoFetches, i + 1, Len(geoFetches))
  /\ IF outcome = "results"
     THEN suggestions' = GeocodeResults(geoFetches[i]) /\ showSugg' = TRUE
     ELSE IF outcome = "noResults"
     THEN suggestions' = <<>> /\ showSugg' = TRUE
     ELSE UNCHANGED <<suggestions, showSugg>>
  /\ UNCHANGED <<timers, debounceRef, uiVars>>

\* LocationInput.selectSuggestion, on one of the first five suggestions of
\* the list on screen.
GeoSelectSuggestion(i) ==
  /\ DropdownShown
  /\ i \in DOMAIN suggestions /\ i <= 5
  /\ SelectSuggestion(GeoKey, suggestions[i])
  /\ suggestions' = <<>>
  /\ showSugg' = FALSE
  /\ UNCHANGED <<timers, debounceRef, geoFetches>>

\* onBlur, once its 200 ms have passed.
GeoBlur ==
  /\ showSugg
  /\ showSugg' = FALSE
  /\ UNCHANGED <<suggestions, timers, debounceRef, geoFetches, uiVars>>

\* onFocus.
GeoFocus ==
  /\ Len(suggestions) > 0
  /\ ~showSugg
  /\ showSugg' = TRUE
  /\ UNCHANGED <<suggestions, timers, debounceRef, geoFetches, uiVars>>

\* A quick-load button of the form the input belongs to.
GeoLoadExample(example) ==
  /\ LoadExample(example)
  /\ UNCHANGED geoVars

(***************************************************************************)
(* Part V.  RouteMap: the Leaflet script and the map instance.             *)
(***************************************************************************)
\* The RouteMaps mounted in one behaviour.
MaxMounts == 2

\* The stops arrays a RouteMap is given.
StopsProps == {"stopsA", "stopsB"}

NoMap == [k |-> "none"]

\* L.map(mapRef.current, ...), drawn from the stops of the render of
\* RouteMap number i that defined initMap.
LeafletMap(i, theStops) == [k |-> "map", inst |-> i, stops |-> theStops]

Script(i, theStops) == [inst |-> i, stops |-> theStops]

MapAt ==
  /\ mounted = FALSE
  /\ inst = 0
  /\ stopsProp = "none"
  /\ leafletLoaded = FALSE
  /\ scripts = {}
  /\ maps = {}
  /\ mapInstanceRef = NoMap

\* initMap of RouteMap number i, as defined by a render with `theStops`:
\* what it leaves in maps and mapInstanceRef.current, given the container
\* and the instance the refs hold.
InitMap(container, ref, live, i, theStops) ==
  IF ~container \/ ref # NoMap
  THEN [maps |-> live, ref |-> ref]
  ELSE [maps |-> live \cup {LeafletMap(i, theStops)}, ref |-> LeafletMap(i, theStops)]

\* The body of the effect on [stops], for RouteMap number i rendered with
\* `theStops`, after any cleanup has left `live` and `ref`.
RunEffect(i, theStops, live, ref) ==
  IF ~leafletLoaded
  THEN /\ scripts' = scripts \cup {Script(i, theStops)}
       /\ maps' = live
       /\ mapInstanceRef' = ref
  ELSE /\ scripts' = scripts
       /\ maps' = InitMap(TRUE, ref, live, i, theStops).maps
       /\ mapInstanceRef' = InitMap(TRUE, ref, live, i, theStops).ref

\* A RouteMap is mounted with `theStops`: its refs are new.
MapMount(theStops) ==
  /\ ~mounted
  /\ inst < MaxMounts
  /\ mounted' = TRUE
  /\ inst' = inst + 1
  /\ stopsProp' = theStops
  /\ RunEffect(inst + 1, theStops, maps, NoMap)
  /\ UNCHANGED leafletLoaded

\* The stops prop changes: the effect's cleanup runs, then the effect.
MapChangeStops(theStops) ==
  /\ mounted
  /\ theStops # stopsProp
  /\ stopsProp' = theStops
  /\ RunEffect(inst, theStops, maps \ {mapInstanceRef}, NoMap)
  /\ UNCHANGED <<mounted, inst, leafletLoaded>>

\* The RouteMap is unmounted: the effect's cleanup runs and React clears
\* mapRef.current.
MapUnmount ==
  /\ mounted
  /\ mounted' = FALSE
  /\ maps' = maps \ {mapInstanceRef}
  /\ mapInstanceRef' = NoMap
  /\ UNCHANGED <<inst, stopsProp, leafletLoaded, scripts>>

\* A Leaflet script finishes loading: window.L is defined and the onload
\* handler calls the initMap of the render that created the script.  The
\* refs of a RouteMap that is no longer mounted are empty.
ScriptLoad(sc) ==
  /\ sc \in scripts
  /\ scripts' = scripts \ {sc}
  /\ leafletLoaded' = TRUE
  /\ LET mine == mounted /\ sc.inst = inst
         out == InitMap(mine, IF mine THEN mapInstanceRef ELSE NoMap, maps,
                        sc.inst, sc.stops)
     IN maps' = out.maps /\ mapInstanceRef' = IF mine THEN out.ref ELSE mapInstanceRef
  /\ UNCHANGED <<mounted, inst, stopsProp>>

(***************************************************************************)
(* Specifications.                                                         *)
(***************************************************************************)
\* The front end, with no plan() running.
Init == UIInit /\ SimAt("idle", NoTrip) /\ SheetAt(0) /\ GeoAt /\ MapAt

Next ==
  \/ (\E key \in Keys, val \in TypedTexts : HandleChange(key, val)) /\ UNCHANGED besidesUI
  \/ (\E key \in Keys, s \in GeoResults : SelectSuggestion(key, s)) /\ UNCHANGED besidesUI
  \/ (\E val \in CycleTexts : HandleCycleChange(val)) /\ UNCHANGED besidesUI
  \/ (\E example \in ExampleNames : LoadExample(example)) /\ UNCHANGED besidesUI
  \/ HandleSubmit /\ UNCHANGED besidesUI
  \/ (\E resp \in Responses : PlanTripSettle(resp)) /\ UNCHANGED besidesUI
  \/ HandleReset /\ UNCHANGED besidesUI

Spec == Init /\ [][Next]_vars

\* One plan() call on any of the trips.
SimInit ==
  UIInit /\ SheetAt(0) /\ GeoAt /\ MapAt /\ \E t \in Trips : SimAt("start", t)

SimNext ==
  \/ SimStart /\ UNCHANGED besidesSim
  \/ StepWaypoint /\ UNCHANGED besidesSim
  \/ StepRest /\ UNCHANGED besidesSim
  \/ StepBreak /\ UNCHANGED besidesSim
  \/ StepFuel /\ UNCHANGED besidesSim

SimSpec == SimInit /\ [][SimNext]_vars

\* plan() is a synchronous loop: it keeps running until it returns.
SimFairSpec == SimSpec /\ WF_vars(SimNext)

\* The log sheets of one plan, shown over some days.
SheetInit == UIInit /\ SimAt("idle", NoTrip) /\ SheetAt(0) /\ GeoAt /\ MapAt

SheetNext ==
  \/ (\E log \in SheetLogs : DrawLog(log)) /\ UNCHANGED besidesSheet
  \/ LeaveLogs /\ UNCHANGED besidesSheet
  \/ ClockTick /\ UNCHANGED besidesSheet

SheetSpec == SheetInit /\ [][SheetNext]_vars

\* One LocationInput of the form, typed into and answered by the geocoder.
GeoNext ==
  \/ (\E val \in GeoTyped : GeoHandleChange(val)) /\ UNCHANGED besidesGeo
  \/ (\E t \in timers : TimerFire(t)) /\ UNCHANGED besidesGeo
  \/ (\E i \in DOMAIN geoFetches, outcome \in GeoOutcomes : GeoRespond(i, outcome))
       /\ UNCHANGED besidesGeo
  \/ (\E i \in DOMAIN suggestions : GeoSelectSuggestion(i)) /\ UNCHANGED besidesGeo
  \/ GeoBlur /\ UNCHANGED besidesGeo
  \/ GeoFocus /\ UNCHANGED besidesGeo
  \/ (\E example \in ExampleNames : GeoLoadExample(example)) /\ UNCHANGED besidesGeo

GeoSpec == Init /\ [][GeoNext]_vars

\* RouteMaps mounted, given new stops and unmounted while Leaflet loads.
MapNext ==
  \/ (\E theStops \in StopsProps : MapMount(theStops)) /\ UNCHANGED besidesMap
  \/ (\E theStops \in StopsProps : MapChangeStops(theStops)) /\ UNCHANGED besidesMap
  \/ MapUnmount /\ UNCHANGED besidesMap
  \/ (\E sc \in scripts : ScriptLoad(sc)) /\ UNCHANGED besidesMap

MapSpec == Init /\ [][MapNext]_vars

(***************************************************************************)
(* Properties of the simulator's timeline.                                 *)
(***************************************************************************)
\* A 10-hour rest in the timeline: off duty or in the sleeper berth for
\* ten hours or more.
IsRestEvent(e) == e.status \in {"OffDuty", "SleeperBerth"} /\ e.e - e.s >= Hours(10)

IsBreakEvent(e) == e.kind = "break" /\ e.e - e.s = Minutes(30)

IsOnDutyEvent(e) == e.status \in {"Driving", "OnDutyNotDriving"}

Duration(e) == e.e - e.s

Front(ev) == SubSeq(ev, 1, Len(ev) - 1)

Last(ev) == ev[Len(ev)]

RECURSIVE CurrentShift(_)
\* The events after the last 10-hour rest.
CurrentShift(ev) ==
  IF ev = <<>> \/ IsRestEvent(Last(ev)) THEN <<>>
  ELSE Append(CurrentShift(Front(ev)), Last(ev))

RECURSIVE SinceBreak(_)
\* The events after the last 30-minute break or 10-hour rest.
SinceBreak(ev) ==
  IF ev = <<>> \/ IsRestEvent(Last(ev)) \/ IsBreakEvent(Last(ev)) THEN <<>>
  ELSE Append(SinceBreak(Front(ev)), Last(ev))

RECURSIVE DrivingTime(_)
DrivingTime(ev) ==
  IF ev = <<>> THEN 0
  ELSE (IF Head(ev).status = "Driving" THEN Duration(Head(ev)) ELSE 0)
       + DrivingTime(Tail(ev))

HasRest(ev) == \E i \in DOMAIN ev : IsRestEvent(ev[i])

HasKind(ev, kind) == \E i \in DOMAIN ev : ev[i].kind = kind

\* From the first on-duty event of the shift to the end of its last
\* Driving event; 0 for a shift without driving.
WindowSpan(shift) ==
  LET onDuty == {i \in DOMAIN shift : IsOnDutyEvent(shift[i])}
      driving == {i \in DOMAIN shift : shift[i].status = "Driving"}
      first == CHOOSE i \in onDuty : \A j \in onDuty : i <= j
      last == CHOOSE i \in driving : \A j \in driving : j <= i
  IN IF driving = {} THEN 0 ELSE shift[last].e - shift[first].s

\* C1: at every point of every timeline the simulator produces, the Driving
\* time since the last 10-hour rest (or the trip start) is at most 11 hours.
C1_DriveLimit == DrivingTime(CurrentShift(events)) <= Hours(11)

\* A second shift that drove its full 11 hours.
C1_Witness ==
  /\ HasRest(events)
  /\ DrivingTime(CurrentShift(events)) = Hours(11)

\* C2: at every point of every timeline, the time from the first on-duty
\* event after the last 10-hour rest (or the trip start) to the end of the
\* last Driving event since is at most 14 hours, tasks, fuel stops and
\* breaks included.
C2_WindowLimit == WindowSpan(CurrentShift(events)) <= Hours(14)

\* A shift after a rest that holds a task, a fuel stop and a break and
\* drives on to more than 13 hours after it began.
C2_Witness ==
  /\ HasRest(events)
  /\ HasKind(CurrentShift(events), "task")
  /\ HasKind(CurrentShift(events), "fuel")
  /\ HasKind(CurrentShift(events), "break")
  /\ Last(events).status = "Driving" \/ Last(Front(events)).status = "Driving"
  /\ WindowSpan(CurrentShift(events)) > Hours(13)

\* C3: at every point of every timeline, the Driving time since the last
\* 30-minute break or 10-hour rest (or the trip start) is at most 8 hours.
C3_BreakLimit == DrivingTime(SinceBreak(events)) <= Hours(8)

\* Eight hours driven since a break taken earlier in the trip.
C3_Witness ==
  /\ HasKind(events, "break")
  /\ HasKind(events, "task")
  /\ DrivingTime(SinceBreak(events)) = Hours(8)

LogTotal(log) ==
  log.total_off_duty + log.total_sleeper + log.total_driving + log.total_on_duty

\* C4: every DayLog of a finished plan totals 24 hours over its four
\* statuses, and the log sheet's sum check passes for it.
C4_DayTotals ==
  simPc = "done" =>
    /\ Len(day_logs) >= 1
    /\ \A i \in DOMAIN day_logs :
         /\ LogTotal(day_logs[i]) = Hours(24)
         /\ SumCheckPasses(day_logs[i])

\* A trip that starts at 23:00 and ends on a later day before midnight:
\* its first day is back-filled before the start, its final day after the
\* dropoff.
C4_Witness ==
  /\ simPc = "done"
  /\ trip.start_hour = 23
  /\ Len(day_logs) >= 3
  /\ day_logs[1].off_duty_periods[1] = <<0, Hours(23)>>
  /\ LET last == day_logs[Len(day_logs)]
     IN last.off_duty_periods[Len(last.off_duty_periods)][2] = Hours(24)
        /\ last.total_off_duty > 0

\* C9, as claimed: every trip whose driving plus task hours exceed
\* 70 - cycle_hours_used ends with the HardBlock verdict and no stops.
C9_HardBlockWhenOver ==
  (/\ simPc \in {"done", "blocked"}
   /\ DriveUnits(trip.d1 + trip.d2) + 2 * Hours(1) > Hours(70 - trip.cycle_hours_used))
  => (verdict = "HardBlock" /\ stops = <<>>)

SimFinished == simPc \in {"done", "blocked"}

\* A loop step of the simulator.
LoopStep == simPc = "run" /\ SimNext

\* C10: the simulation loop ends, with the dropoff processed (or the
\* request refused), and every loop step advances the simulated time or
\* the distance travelled.
C10_Terminates ==
  /\ <>SimFinished
  /\ [][LoopStep => (now' > now \/ miles' > miles)]_vars

\* A finished plan in which a rest began right after a task, a fuel stop
\* or a break, with no driving in between: the bound was already met.
C10_Witness ==
  /\ simPc = "done"
  /\ \E i \in 1..(Len(events) - 1) :
       /\ events[i].kind \in {"task", "fuel", "break"}
       /\ events[i + 1].kind = "rest"

(***************************************************************************)
(* Properties of the front end.                                            *)
(***************************************************************************)
\* The text is a number between 0 and 70.
CycleTextInRange(text) ==
  LET x == ParseFloat(text)
  IN x.k = "number" /\ x.v >= 0 /\ x.v <= 70 * Scale

AllLocationsSet(f) ==
  \A key \in Keys : f[key].lat.k = "number" /\ f[key].lat.v # 0

\* C5: a request in flight carries cycle_hours_used as a number in [0, 70],
\* and a submission of a form whose cycle-hours text is not such a number
\* sets the validation error and forwards nothing.
C5_CycleValidated ==
  /\ [](call.st = "pending" =>
          /\ call.body.cycle_hours_used.k = "number"
          /\ call.body.cycle_hours_used.v >= 0
          /\ call.body.cycle_hours_used.v <= 70 * Scale)
  /\ [][(HandleSubmit /\ ~CycleTextInRange(form.cycleHoursUsed)) =>
          (validationError' # "" /\ call' = call /\ loading' = loading)]_vars

\* A form with all three locations set and cycle hours out of range was
\* submitted: the cycle error is shown and nothing is in flight.
C5_Witness ==
  /\ validationError = ValidationCycle
  /\ AllLocationsSet(form)
  /\ ~CycleTextInRange(form.cycleHoursUsed)
  /\ call.st = "none"
  /\ ~loading

\* The locations a suggestion selection or an example load produces.
SelectionLocations ==
  {Loc("Boston, Suffolk County", JNum(423601), JNum(-710589)),
   Loc("Macapa , AP", JNum(0), JNum(-510694))}
  \cup {Examples[ex][key] : ex \in ExampleNames, key \in Keys}

CarriesCoordinates(l) == l.lat # JNull \/ l.lon # JNull

\* C6: a location of the form carries coordinates only as a selection or an
\* example load left it, text and coordinates together; and a request in
\* flight carries, for each of the three locations, numeric coordinates
\* with the text they were selected with.
C6_CoordinatesCurrent ==
  /\ \A key \in Keys :
       CarriesCoordinates(form[key]) => form[key] \in SelectionLocations
  /\ call.st = "pending" =>
       LET b == call.body
       IN /\ \A c \in {b.current_lat, b.current_lon, b.pickup_lat,
                       b.pickup_lon, b.dropoff_lat, b.dropoff_lon} :
               c.k = "number"
          /\ Loc(b.current_location, b.current_lat, b.current_lon)
               \in SelectionLocations
          /\ Loc(b.pickup_location, b.pickup_lat, b.pickup_lon)
               \in SelectionLocations
          /\ Loc(b.dropoff_location, b.dropoff_lat, b.dropoff_lon)
               \in SelectionLocations

\* A request went out with a selected location, and a keystroke in that
\* input has since cleared its coordinates in the form.
C6_Witness ==
  /\ call.st = "pending"
  /\ call.body.current_location = "Boston, Suffolk County"
  /\ form.currentLocation = Loc("Bo", JNull, JNull)

\* C7: once a plan-trip request has settled with a non-OK response flagged
\* cycle_warning of type hard_limit, tripData is null (the form, not the
\* results, is shown), cycleWarning is null and error is the response's
\* message.
C7_HardLimit ==
  (call.st = "settled" /\ IsHardLimit(call.resp)) =>
    /\ tripData = JNull
    /\ ~ResultsShown
    /\ cycleWarning = JNull
    /\ error = call.resp.data.message

C7_Witness ==
  /\ call.st = "settled"
  /\ IsHardLimit(call.resp)
  /\ error = HardMessage
  /\ ErrorBoxShown

\* C8: once a plan-trip request has settled with an OK response flagged
\* cycle_warning of type soft_limit, tripData is the whole response body,
\* cycleWarning is its advisory message, error is null, and the results are
\* shown with the warning banner.
C8_SoftLimit ==
  (call.st = "settled" /\ IsSoftLimit(call.resp)) =>
    /\ tripData = call.resp.data
    /\ cycleWarning = call.resp.data.cycle_warning_message
    /\ error = JNull
    /\ ResultsShown
    /\ BannerShown

C8_Witness ==
  /\ call.st = "settled"
  /\ IsSoftLimit(call.resp)
  /\ tripData.plan = Itinerary
  /\ cycleWarning = SoftMessage
  /\ BannerShown

(***************************************************************************)
(* Properties of the Stop sequence.                                        *)
(***************************************************************************)
\* C11, as claimed: across the Stop sequence cumulative_miles is strictly
\* increasing, each stop's reading greater than the one before it.
C11_StrictlyIncreasing ==
  \A i \in 1..(Len(stops) - 1) :
    stops[i].cumulative_miles < stops[i + 1].cumulative_miles

\* C11, amended: across the Stop sequence cumulative_miles never decreases;
\* it is greater than the reading before it when there was driving between
\* the two stops, and equal to it when the later transition fired at the
\* point of the earlier one.
C11_NonDecreasing ==
  \A i \in 1..(Len(stops) - 1) :
    /\ stops[i].cumulative_miles <= stops[i + 1].cumulative_miles
    /\ stops[i + 1].arrival_time > stops[i].departure_time
         <=> stops[i].cumulative_miles < stops[i + 1].cumulative_miles
    /\ stops[i + 1].miles_from_prev
         = stops[i + 1].cumulative_miles - stops[i].cumulative_miles

\* A finished plan of a trip with two legs to drive in which the 30-minute
\* break and the pickup fell on the same point, 440 miles out, and the
\* stops after them lie further on.
C11_Witness ==
  /\ simPc = "done"
  /\ trip.d1 > 0 /\ trip.d2 > 0
  /\ \E i \in 1..(Len(stops) - 1) :
       /\ {stops[i].type, stops[i + 1].type} = {"break", "pickup"}
       /\ stops[i].cumulative_miles = 440
       /\ stops[i + 1].cumulative_miles = 440
  /\ stops[Len(stops)].cumulative_miles = trip.d1 + trip.d2
  /\ stops[Len(stops)].cumulative_miles > 440

HasRestStop(ss) ==
  \E i \in DOMAIN ss : ss[i].type = "rest" /\ ss[i].duration_hours >= Hours(10)

\* The total drive time of the trip's route exceeds 11 hours.
LongRoute == DriveUnits(trip.d1 + trip.d2) > Hours(11)

\* C12, as claimed: the finished plan of a route whose total drive time
\* exceeds 11 hours holds a 10-hour rest stop and has total_days > 1,
\* whatever the time of day the trip starts at.
C12_RestAndSecondDay ==
  (simPc = "done" /\ LongRoute) =>
    (HasRestStop(stops) /\ TotalDays(day_logs) > 1)

\* C12, amended: the finished plan of a route whose total drive time
\* exceeds 11 hours holds a 10-hour rest stop; its total_days is more than
\* 1 exactly when the trip ends after the first local midnight, which it
\* does whenever it starts at 01:00 or later.
C12_RestAndDays ==
  (simPc = "done" /\ LongRoute) =>
    /\ HasRestStop(stops)
    /\ TotalDays(day_logs) > 1 <=> Hours(trip.start_hour) + now > Day
    /\ trip.start_hour >= 1 => TotalDays(day_logs) > 1

\* The 606-mile route started at 01:00: it rests once and ends on day 2.
C12_Witness ==
  /\ simPc = "done"
  /\ trip.d1 + trip.d2 = 606
  /\ trip.start_hour = 1
  /\ HasRestStop(stops)
  /\ TotalDays(day_logs) = 2

(***************************************************************************)
(* Properties of the plan-trip request.                                    *)
(***************************************************************************)
\* The request failed: fetch rejected, the body did not parse, or the
\* response was not OK.
Failed(resp) ==
  IF resp.kind = "network" THEN TRUE
  ELSE IF ~resp.parsable THEN TRUE
  ELSE ~resp.ok

\* The submission passes handleSubmit's validation.
Accepted(f) == ~LocationsRejected(f) /\ ~CycleRejected(ParseFloat(f.cycleHoursUsed))

\* C13: a submission that passes validation puts exactly one request in
\* flight; a request in flight ends settled, whatever its outcome, and is
\* never sent again; a failed request leaves its error set and no request
\* in flight; and a request goes in flight only by a step of handleSubmit.
C13_NoRetry ==
  [][/\ (HandleSubmit /\ Accepted(form)) =>
          (call.st # "pending" /\ call' = [st |-> "pending", body |-> FormData(form)])
     /\ (call.st = "pending" /\ call' # call) =>
          (call'.st = "settled" /\ ~loading')
     /\ (call.st = "pending" /\ call'.st = "settled" /\ Failed(call'.resp)) =>
          (Truthy(error') /\ ~Truthy(tripData'))
     /\ (call'.st = "pending" /\ call' # call) =>
          (HandleSubmit /\ Accepted(form))]_vars

\* A request failed on the network: the error is shown beside the form,
\* which still holds the submitted locations, and nothing is in flight.
C13_Witness ==
  /\ call.st = "settled"
  /\ call.resp = NetworkFailure
  /\ error = NetworkErrorMessage
  /\ ErrorBoxShown
  /\ Accepted(form)
  /\ ~loading

\* C18: loading is true exactly while a request is in flight, so it is
\* false after every outcome; and a request goes in flight only from a
\* state in which none is and loading is false.
C18_LoadingWhilePending ==
  /\ [](loading <=> call.st = "pending")
  /\ [][(call'.st = "pending" /\ call' # call) =>
          (~loading /\ call.st # "pending" /\ loading')]_vars
  /\ [][(call.st = "pending" /\ loading) => ~HandleSubmit]_vars

\* A request answered by a body that is not JSON has settled and loading
\* is false again.
C18_Witness ==
  /\ call.st = "settled"
  /\ call.resp = UnparsableResponse(FALSE)
  /\ error = SyntaxErrorMessage
  /\ ~loading

\* C19: error and tripData are never both set, and cycleWarning is set
\* only if tripData is: the error box is only ever shown with the form and
\* the warning banner only with the results.
C19_ErrorXorResults ==
  /\ ~(Truthy(error) /\ Truthy(tripData))
  /\ Truthy(cycleWarning) => Truthy(tripData)
  /\ Truthy(error) => (FormShown /\ ~ResultsShown)
  /\ Truthy(cycleWarning) => (ResultsShown /\ ~FormShown)

\* A non-OK response flagged soft_limit has settled: its advisory is not
\* kept, the error is shown with the form.
C19_Witness ==
  /\ call.st = "settled"
  /\ call.resp = RespSoftNotOk
  /\ cycleWarning = JNull
  /\ error = DefaultErrorMessage
  /\ ErrorBoxShown

Took(t) == Len(stops') = Len(stops) + 1 /\ stops'[Len(stops')].type = t

\* The driving the step did before its stop.
Drove == miles' - miles

\* Two of the bounds window cap, drive cap, break threshold and fuel
\* boundary are reached at the end of the same step's driving.
BoundsTie ==
  /\ simPc = "run"
  /\ Cardinality({b \in {"window", "drive", "break", "fuel"} :
         Advance = (CASE b = "window" -> ToWindowCap
                      [] b = "drive" -> ToDriveCap
                      [] b = "break" -> ToBreak
                      [] b = "fuel" -> ToFuel)}) >= 2

\* On the routes planned, no step reaches two of these four bounds at once.
NoBoundsTie == ~BoundsTie

\* C16: a pickup or dropoff task leaves the drive counters as the driving
\* before it left them and adds its hour to duty_in_window; a fuel stop
\* resets miles_since_fuel and no other counter; a 30-minute break resets
\* drive_since_break alone, and duty_in_window accrues through it; the
\* 10-hour rest resets drive_in_shift, duty_in_window and
\* drive_since_break, and no other transition lowers drive_in_shift or
\* duty_in_window.
C16_CounterFrame ==
  [][/\ (Took("pickup") \/ Took("dropoff")) =>
          /\ drive_since_break' = drive_since_break + Drove
          /\ drive_in_shift' = drive_in_shift + Drove
          /\ duty_in_window' = duty_in_window + Drove + Hours(1)
          /\ miles_since_fuel' = miles_since_fuel + Drove
     /\ Took("fuel") =>
          /\ miles_since_fuel' = 0
          /\ drive_since_break' = drive_since_break + Drove
          /\ drive_in_shift' = drive_in_shift + Drove
          /\ duty_in_window' = duty_in_window + (now' - now)
     /\ Took("break") =>
          /\ drive_since_break' = 0
          /\ drive_in_shift' = drive_in_shift + Drove
          /\ duty_in_window' = duty_in_window + Drove + Minutes(30)
          /\ miles_since_fuel' = miles_since_fuel + Drove
     /\ Took("rest") =>
          /\ drive_since_break' = 0
          /\ drive_in_shift' = 0
          /\ duty_in_window' = 0
          /\ miles_since_fuel' = miles_since_fuel + Drove
     /\ (drive_in_shift' < drive_in_shift \/ duty_in_window' < duty_in_window) =>
          Took("rest")]_vars

\* Right after a 30-minute break taken eight driving hours into a shift
\* that began with a task: the break clock is at zero, the shift clock at
\* eight hours, the window at nine and a half.
C16_Witness ==
  /\ simPc = "run"
  /\ stops[Len(stops)].type = "break"
  /\ drive_since_break = 0
  /\ drive_in_shift = Hours(8)
  /\ duty_in_window = Hours(9) + Minutes(30)

(***************************************************************************)
(* Properties of the partition into DayLogs.                               *)
(***************************************************************************)
Statuses == {"OffDuty", "SleeperBerth", "Driving", "OnDutyNotDriving"}

\* The period list of a DayLog for a status.
PeriodsOf(log, status) ==
  CASE status = "OffDuty" -> log.off_duty_periods
    [] status = "SleeperBerth" -> log.sleeper_periods
    [] status = "Driving" -> log.driving_periods
    [] status = "OnDutyNotDriving" -> log.on_duty_periods

TotalOf(log, status) ==
  CASE status = "OffDuty" -> log.total_off_duty
    [] status = "SleeperBerth" -> log.total_sleeper
    [] status = "Driving" -> log.total_driving
    [] status = "OnDutyNotDriving" -> log.total_on_duty

\* All the periods of a DayLog, as a set of (status, period) pairs.
AllPeriods(log) ==
  UNION {{<<st, PeriodsOf(log, st)[i]>> : i \in DOMAIN PeriodsOf(log, st)} :
           st \in Statuses}

RECURSIVE StatusTime(_, _)
\* The time the events of ev spend in a status.
StatusTime(ev, status) ==
  IF ev = <<>> THEN 0
  ELSE (IF Head(ev).status = status THEN Duration(Head(ev)) ELSE 0)
       + StatusTime(Tail(ev), status)

RECURSIVE SumTotals(_, _)
SumTotals(logs, status) ==
  IF logs = <<>> THEN 0
  ELSE TotalOf(Head(logs), status) + SumTotals(Tail(logs), status)

\* The part of event e that falls in local day d (0-based) is a period of
\* that day's log, under the event's status.
PieceLogged(e, d) ==
  LET off == Hours(trip.start_hour)
      lo == d * Day
      a == Max2(e.s + off, lo)
      b == Min2(e.e + off, lo + Day)
  IN a < b =>
       /\ d + 1 \in DOMAIN day_logs
       /\ \E i \in DOMAIN PeriodsOf(day_logs[d + 1], e.status) :
            PeriodsOf(day_logs[d + 1], e.status)[i] = <<a - lo, b - lo>>

\* C17: in a finished plan, every period of every DayLog satisfies
\* 0 <= start < end <= 24, so the log sheet draws each list as it is,
\* clamping and skipping nothing; the periods of one DayLog do not overlap;
\* every event is logged piece by piece, one piece for each local day it
\* touches, the pieces of an event that spans midnight lying in adjacent
\* DayLogs; and over all DayLogs the Driving and on-duty totals are the
\* Driving and on-duty time of the timeline.
C17_PartitionPreserves ==
  simPc = "done" =>
    /\ \A n \in DOMAIN day_logs : \A st \in Statuses :
         LET periods == PeriodsOf(day_logs[n], st)
         IN /\ \A i \in DOMAIN periods :
                 0 <= periods[i][1] /\ periods[i][1] < periods[i][2]
                 /\ periods[i][2] <= Hours(24)
            /\ DrawPeriods(periods) = periods
            /\ PeriodsTotal(DrawPeriods(periods)) = TotalOf(day_logs[n], st)
    /\ \A n \in DOMAIN day_logs : \A p, q \in AllPeriods(day_logs[n]) :
         p # q => (p[2][2] <= q[2][1] \/ q[2][2] <= p[2][1])
    /\ \A i \in DOMAIN events : \A d \in 0..(Len(day_logs) + 1) :
         PieceLogged(events[i], d)
    /\ \A st \in {"Driving", "OnDutyNotDriving"} :
         SumTotals(day_logs, st) = StatusTime(events, st)

\* A finished plan whose 10-hour rest spans the first local midnight: the
\* part before midnight ends day 1's list, the part after it begins
\* day 2's.
C17_Witness ==
  /\ simPc = "done"
  /\ Len(day_logs) >= 2
  /\ \E i \in DOMAIN events :
       LET off == Hours(trip.start_hour)
           a == events[i].s + off
           b == events[i].e + off
           st == events[i].status
       IN /\ events[i].kind = "rest"
          /\ a < Day /\ Day < b
          /\ \E k \in DOMAIN PeriodsOf(day_logs[1], st) :
               PeriodsOf(day_logs[1], st)[k] = <<a, Day>>
          /\ PeriodsOf(day_logs[2], st)[1] = <<0, b - Day>>
          /\ (b - Day) + (Day - a) = Hours(10)

(***************************************************************************)
(* Properties of the log sheet.                                            *)
(***************************************************************************)
\* C14, as claimed: whenever a DayLog's sheet is drawn, the month, day and
\* year on its date line are those first stamped on that DayLog, whatever
\* the wall clock says at the time of the rendering.
C14_DateStampDeterministic ==
  canvas # Blank => canvas.stamp = stamped[canvas.log.date_offset_days]

(***************************************************************************)
(* Properties of handleSubmit.                                             *)
(***************************************************************************)
\* All three locations carry a numeric latitude and longitude.
AllCoordinatesNumeric(f) ==
  \A key \in Keys : f[key].lat.k = "number" /\ f[key].lon.k = "number"

\* C21, as claimed: a submission of a form whose three locations carry
\* numeric coordinates, 0 included, and whose cycle hours are a number in
\* [0, 70] is forwarded to onSubmit, with no validation error.
C21_ForwardsValidForm ==
  [][(HandleSubmit /\ AllCoordinatesNumeric(form)
        /\ CycleTextInRange(form.cycleHoursUsed)) =>
       (call' = [st |-> "pending", body |-> FormData(form)]
        /\ validationError' = "")]_vars

(***************************************************************************)
(* Properties of LocationInput.                                            *)
(***************************************************************************)
\* C22, as claimed: the suggestion list on screen is the geocoder's answer
\* for the input's current text, which is three characters or more.
C22_SuggestionsCurrent ==
  DropdownShown =>
    /\ Len(form[GeoKey].text) >= 3
    /\ suggestions = GeocodeResults(form[GeoKey].text)

\* The step sends a geocode request.
RequestIssued == Len(geoFetches') = Len(geoFetches) + 1

\* C23, as claimed: at most one debounce timer is pending; a geocode
\* request goes out only for the text the input holds, three characters or
\* more; and a keystroke that leaves fewer than three characters clears
\* the suggestions, leaves no timer pending and sends nothing.
C23_Debounced ==
  /\ [](Cardinality(timers) <= 1)
  /\ [][RequestIssued =>
          (geoFetches'[Len(geoFetches')] = form[GeoKey].text
           /\ Len(form[GeoKey].text) >= 3)]_vars
  /\ [][(form'[GeoKey].text # form[GeoKey].text /\ form'[GeoKey].lat = JNull
          /\ Len(form'[GeoKey].text) < 3) =>
          (suggestions' = <<>> /\ timers' = {} /\ geoFetches' = geoFetches)]_vars

====
